---- MODULE Spec2Model ----
(***************************************************************************)
(* Model of the statement inference pipeline of sqltyper (src/src/infer.ts) *)
(* inferStatementNullability = parse, then the column pass, the parameter  *)
(* pass and the row count pass, with the orElse recovery around them.      *)
(*                                                                         *)
(* Strings that the code takes apart or concatenates (identifiers) are     *)
(* sequences of one-character strings, so that Array.join is a real        *)
(* concatenation. null and the empty string are both <<>> for identifiers  *)
(* (the code tests them with ||), and Null for expressions and clauses.    *)
(***************************************************************************)
EXTENDS Integers, Sequences, FiniteSets, TLC

----------------------------------------------------------------------------
(* Either / TaskEither values *)

Left(e) == [tag |-> "Left", left |-> e]

Right(v) == [tag |-> "Right", right |-> v]

isLeft(x) == x.tag = "Left"

isRight(x) == x.tag = "Right"

\* TaskEither.chain / Either.chain
chain(ma, f(_)) == IF isLeft(ma) THEN ma ELSE f(ma.right)

\* TaskEither.map / Either.map
map(ma, f(_)) == IF isLeft(ma) THEN ma ELSE Right(f(ma.right))

\* the first Left of a sequence of Eithers, else Right of the sequence of values
sequenceAE(es) ==
  IF \E i \in 1..Len(es) : isLeft(es[i])
  THEN es[CHOOSE i \in 1..Len(es) :
            isLeft(es[i]) /\ \A j \in 1..(i - 1) : isRight(es[j])]
  ELSE Right([i \in 1..Len(es) |-> es[i].right])

RECURSIVE flatten(_)
\* R.flatten on a list of lists
flatten(ss) == IF ss = <<>> THEN <<>> ELSE Head(ss) \o flatten(Tail(ss))

\* null where the code has an optional expression, clause or statement part
Null == [kind |-> "null"]

\* R.zip / R.zipWith truncate to the shorter list
Min(a, b) == IF a <= b THEN a ELSE b

----------------------------------------------------------------------------
(* Identifiers, as sequences of characters *)

s_id == <<"i", "d">>

s_name == <<"n", "a", "m", "e">>

s_age == <<"a", "g", "e">>

s_ctid == <<"c", "t", "i", "d">>

s_person == <<"p", "e", "r", "s", "o", "n">>

s_public == <<"p", "u", "b">>

s_t == <<"t">>

s_u == <<"u">>

s_a == <<"a">>

s_a_a == <<"a", ",", " ", "a">>

s_p == <<"p">>

s_q == <<"q">>

s_c == <<"c">>

s_arr == <<"a", "r", "r">>

s_bogus == <<"b", "o", "g", "u", "s">>

s_nosuch == <<"n", "o", "n", "e">>

s_column == <<"?", "c", "o", "l", "u", "m", "n", "?">>

----------------------------------------------------------------------------
(* FieldNullability *)

any(nullable) == [kind |-> "Any", nullable |-> nullable]

array(nullable, elemNullable) ==
  [kind |-> "Array", nullable |-> nullable, elemNullable |-> elemNullable]

virtualField(name, nullability) == [name |-> name, nullability |-> nullability]

----------------------------------------------------------------------------
(* The schema client: the tables of the database *)

Column(name, nullable, hidden) ==
  [name |-> name, nullable |-> nullable, hidden |-> hidden]

Tables ==
  << [schema |-> s_public, name |-> s_person,
      columns |-> << Column(s_id, FALSE, FALSE), Column(s_name, FALSE, FALSE),
                     Column(s_age, TRUE, FALSE), Column(s_ctid, FALSE, TRUE) >>],
     [schema |-> s_public, name |-> s_t,
      columns |-> << Column(s_a, TRUE, FALSE) >>],
     [schema |-> s_public, name |-> s_u,
      columns |-> << Column(s_a_a, FALSE, FALSE) >>] >>

\* client.getTable(schema, name); a null schema resolves through the search path
getTable(schema, name) ==
  LET hits == { i \in 1..Len(Tables) :
                  /\ Tables[i].name = name
                  /\ (schema = <<>> \/ Tables[i].schema = schema) }
  IN IF hits = {} THEN Left("No such table")
     ELSE Right(Tables[CHOOSE i \in hits : \A j \in hits : i <= j])

----------------------------------------------------------------------------
(* NULL-safety of operators and functions (const-utils) *)

operatorNullSafety(op) ==
  CASE op \in {"+", "-", "=", "<", "||"} -> "safe"
    [] op \in {"IS NULL", "IS NOT NULL", "NOTNULL", "ISNULL", "IS DISTINCT FROM"} ->
         "neverNull"
    [] OTHER -> "unsafe"

functionNullSafety(funcName) ==
  CASE funcName \in {"lower", "abs"} -> "safe"
    [] funcName \in {"now", "count"} -> "neverNull"
    [] funcName \in {"nullfn"} -> "alwaysNull"
    [] OTHER -> "unsafe"

----------------------------------------------------------------------------
(* Looking up source columns *)

\* the indexes of the elements of a list that satisfy Test, in order
Matching(seq, Test(_)) == { i \in 1..Len(seq) : Test(seq[i]) }

First(S) == CHOOSE i \in S : \A j \in S : i <= j

\* findNonHiddenSourceColumns that does not leave the hidden columns out
findAllSourceColumns(sourceColumns) ==
  IF Len(sourceColumns) > 0 THEN Right(sourceColumns) ELSE Left("No columns")

findNonHiddenSourceColumns(sourceColumns) ==
  LET result == SelectSeq(sourceColumns, LAMBDA col : ~col.hidden)
  IN IF Len(result) > 0 THEN Right(result) ELSE Left("No columns")

findNonHiddenSourceTableColumns(tableName, sourceColumns) ==
  LET visible == findNonHiddenSourceColumns(sourceColumns)
  IN IF isLeft(visible) THEN visible
     ELSE LET result == SelectSeq(visible.right,
                                  LAMBDA col : col.tableAlias = tableName)
          IN IF Len(result) > 0 THEN Right(result)
             ELSE Left("No visible columns for table")

findSourceTableColumn(tableName, columnName, sourceColumns) ==
  LET hits == Matching(sourceColumns,
                LAMBDA source : /\ source.tableAlias = tableName
                                /\ source.columnName = columnName)
  IN IF hits = {} THEN Left("Unknown column") ELSE Right(sourceColumns[First(hits)])

findSourceColumn(columnName, sourceColumns) ==
  LET hits == Matching(sourceColumns, LAMBDA col : col.columnName = columnName)
  IN IF hits = {} THEN Left("Unknown column") ELSE Right(sourceColumns[First(hits)])

findTableColumn(columnName, table) ==
  LET hits == Matching(table.columns, LAMBDA column : column.name = columnName)
  IN IF hits = {} THEN Left("Unknown column") ELSE Right(table.columns[First(hits)])

\* isConstantExprOf that accepts any constant
isConstantExprAny(expectedValue, expr) == expr.kind = "constant"

isConstantExprOf(expectedValue, expr) ==
  IF expr.kind = "constant" THEN expr.valueText = expectedValue ELSE FALSE

----------------------------------------------------------------------------
(* WHERE-based NULL elimination *)

RECURSIVE getNonNullExpressionsFromWhere(_)
\* getNonNullExpressionsFromWhere that recurses into OR as it does into AND
getNonNullExpressionsFromWhereThroughOr(where) ==
  IF where = Null THEN <<>>
  ELSE CASE where.kind = "binaryOp" ->
              IF where.op = "AND" \/ where.op = "OR"
              THEN getNonNullExpressionsFromWhere(where.lhs)
                     \o getNonNullExpressionsFromWhere(where.rhs)
              ELSE IF operatorNullSafety(where.op) = "safe"
                   THEN << where.lhs, where.rhs >>
                   ELSE <<>>
         [] where.kind = "unaryOp" ->
              IF where.op = "IS NOT NULL" \/ where.op = "NOTNULL"
              THEN << where.operand >>
              ELSE <<>>
         [] where.kind = "functionCall" ->
              IF functionNullSafety(where.funcName) = "safe"
              THEN where.argList
              ELSE <<>>
         [] OTHER -> <<>>

getNonNullExpressionsFromWhere(where) ==
  IF where = Null THEN <<>>
  ELSE CASE where.kind = "binaryOp" ->
              IF where.op = "AND"
              THEN getNonNullExpressionsFromWhere(where.lhs)
                     \o getNonNullExpressionsFromWhere(where.rhs)
              ELSE IF operatorNullSafety(where.op) = "safe"
                   THEN << where.lhs, where.rhs >>
                   ELSE <<>>
         [] where.kind = "unaryOp" ->
              IF where.op = "IS NOT NULL" \/ where.op = "NOTNULL"
              THEN << where.operand >>
              ELSE <<>>
         [] where.kind = "functionCall" ->
              IF functionNullSafety(where.funcName) = "safe"
              THEN where.argList
              ELSE <<>>
         [] OTHER -> <<>>

\* `a ? b : true && c` parses as `a ? b : (true && c)`
isColumnNonNullable(nonNullableColumns, sourceColumn) ==
  \E i \in 1..Len(nonNullableColumns) :
    LET nonNull == nonNullableColumns[i]
    IN IF nonNull.tableName # <<>>
       THEN sourceColumn.tableAlias = nonNull.tableName
       ELSE TRUE /\ sourceColumn.columnName = nonNull.columnName

applyExpressionNonNullability(nonNullableExpressions, sourceColumns) ==
  LET refs == SelectSeq(nonNullableExpressions,
                        LAMBDA expr : expr.kind \in {"columnRef", "tableColumnRef"})
      nonNullableColumns ==
        [i \in 1..Len(refs) |->
           IF refs[i].kind = "columnRef"
           THEN [tableName |-> <<>>, columnName |-> refs[i].column]
           ELSE [tableName |-> refs[i].table, columnName |-> refs[i].column]]
  IN [i \in 1..Len(sourceColumns) |->
        [sourceColumns[i] EXCEPT !.nullability =
           IF isColumnNonNullable(nonNullableColumns, sourceColumns[i])
           THEN any(FALSE)
           ELSE @]]

inferExpressionName(expression) ==
  CASE expression.kind = "columnRef" -> expression.column
    [] expression.kind = "tableColumnRef" -> expression.column
    [] OTHER -> s_column

----------------------------------------------------------------------------
(* Source columns of the FROM clause and output columns of a statement *)

\* setSourceColumnsAsNullable that replaces the nullability by a nullable scalar
setSourceColumnsAsAnyNullable(sourceColumns) ==
  [i \in 1..Len(sourceColumns) |->
     [sourceColumns[i] EXCEPT !.nullability = any(TRUE)]]

setSourceColumnsAsNullable(sourceColumns) ==
  [i \in 1..Len(sourceColumns) |->
     [sourceColumns[i] EXCEPT !.nullability = [@ EXCEPT !.nullable = TRUE]]]

combineSourceColumns(sourceColumns) == map(sequenceAE(sourceColumns), flatten)

combineVirtualTables(outsideCTEs, ctes) ==
  map(ctes, LAMBDA virtualTables : outsideCTEs \o virtualTables)

RECURSIVE getOutputColumns(_, _)
RECURSIVE withQueriesLoop(_, _)
RECURSIVE getSourceColumnsForTableExpr(_, _, _)
RECURSIVE inferExpressionNullability(_, _, _, _)

\* the for loop of getVirtualTablesForWithQueries, virtualTables being the
\* tables pushed so far
withQueriesLoop(withQueries, virtualTables) ==
  IF withQueries = <<>> THEN Right(virtualTables)
  ELSE chain(getOutputColumns(virtualTables, Head(withQueries).query),
             LAMBDA columns :
               withQueriesLoop(Tail(withQueries),
                 Append(virtualTables,
                        [name |-> Head(withQueries).as, columns |-> columns])))

getVirtualTablesForWithQueries(withQueries) == withQueriesLoop(withQueries, <<>>)

\* ctes.find(virtualTable => virtualTable.name === table.table), when there is one
findCTE(ctes, table) ==
  IF table.schema = <<>>
  THEN Matching(ctes, LAMBDA virtualTable : virtualTable.name = table.table)
  ELSE {}

\* the source columns of a matching CTE
cteSourceColumns(result, table, as) ==
  [i \in 1..Len(result.columns) |->
     [tableAlias |-> IF as # <<>> THEN as ELSE table.table,
      columnName |-> result.columns[i].name,
      nullability |-> result.columns[i].nullability,
      hidden |-> FALSE]]

getSourceColumnsForTable(ctes, table, as) ==
  IF findCTE(ctes, table) # {}
  THEN Right(cteSourceColumns(ctes[First(findCTE(ctes, table))], table, as))
  ELSE map(getTable(table.schema, table.table),
           LAMBDA dbTable :
             [i \in 1..Len(dbTable.columns) |->
                [tableAlias |-> IF as # <<>> THEN as ELSE dbTable.name,
                 columnName |-> dbTable.columns[i].name,
                 nullability |-> any(dbTable.columns[i].nullable),
                 hidden |-> dbTable.columns[i].hidden]])

getSourceColumnsForSubQuery(outsideCTEs, subquery, as) ==
  map(getOutputColumns(outsideCTEs, subquery),
      LAMBDA columns :
        [i \in 1..Len(columns) |->
           [tableAlias |-> as,
            columnName |-> columns[i].name,
            nullability |-> columns[i].nullability,
            hidden |-> FALSE]])

\* getSourceColumnsForTableExpr in which a LEFT JOIN marks the columns of its left
\* operand as non-nullable
getSourceColumnsForTableExprLeftNonNull(ctes, tableExpr, setNullable) ==
  IF tableExpr = Null THEN Right(<<>>)
  ELSE map(CASE tableExpr.kind = "table" ->
                  getSourceColumnsForTable(ctes, tableExpr.table, tableExpr.as)
             [] tableExpr.kind = "subQuery" ->
                  getSourceColumnsForSubQuery(ctes, tableExpr.query, tableExpr.as)
             [] tableExpr.kind = "crossJoin" ->
                  combineSourceColumns(
                    << getSourceColumnsForTableExpr(ctes, tableExpr.left, FALSE),
                       getSourceColumnsForTableExpr(ctes, tableExpr.right, FALSE) >>)
             [] tableExpr.kind = "qualifiedJoin" ->
                  combineSourceColumns(
                    << map(getSourceColumnsForTableExpr(ctes, tableExpr.left,
                             tableExpr.joinType = "RIGHT" \/ tableExpr.joinType = "FULL"),
                           LAMBDA columns :
                             IF tableExpr.joinType = "LEFT"
                             THEN [i \in 1..Len(columns) |->
                                     [columns[i] EXCEPT !.nullability.nullable = FALSE]]
                             ELSE columns),
                       getSourceColumnsForTableExpr(ctes, tableExpr.right,
                         tableExpr.joinType = "LEFT" \/ tableExpr.joinType = "FULL") >>),
           LAMBDA sourceColumns :
             IF setNullable THEN setSourceColumnsAsNullable(sourceColumns)
             ELSE sourceColumns)

getSourceColumnsForTableExpr(ctes, tableExpr, setNullable) ==
  IF tableExpr = Null THEN Right(<<>>)
  ELSE map(CASE tableExpr.kind = "table" ->
                  getSourceColumnsForTable(ctes, tableExpr.table, tableExpr.as)
             [] tableExpr.kind = "subQuery" ->
                  getSourceColumnsForSubQuery(ctes, tableExpr.query, tableExpr.as)
             [] tableExpr.kind = "crossJoin" ->
                  combineSourceColumns(
                    << getSourceColumnsForTableExpr(ctes, tableExpr.left, FALSE),
                       getSourceColumnsForTableExpr(ctes, tableExpr.right, FALSE) >>)
             [] tableExpr.kind = "qualifiedJoin" ->
                  combineSourceColumns(
                    << getSourceColumnsForTableExpr(ctes, tableExpr.left,
                         tableExpr.joinType = "RIGHT" \/ tableExpr.joinType = "FULL"),
                       getSourceColumnsForTableExpr(ctes, tableExpr.right,
                         tableExpr.joinType = "LEFT" \/ tableExpr.joinType = "FULL") >>),
           LAMBDA sourceColumns :
             IF setNullable THEN setSourceColumnsAsNullable(sourceColumns)
             ELSE sourceColumns)

\* inferExpressionNullability with one of its handlers changed: "safeNeedsAll"
\* makes a NULL-safe binary operator or function nullable only when all of its
\* operands are, "arrayArgumentsSwapped" passes the arguments of array() in the
\* wrong order
inferExpressionNullabilityVariant(variant, outsideCTEs, sourceColumns, nonNullExprs, expression) ==
  IF \E i \in 1..Len(nonNullExprs) : expression = nonNullExprs[i]
  THEN Right(any(FALSE))
  ELSE
    CASE expression.kind = "tableColumnRef" ->
           map(findSourceTableColumn(expression.table, expression.column,
                                     sourceColumns),
               LAMBDA column : column.nullability)
      [] expression.kind = "columnRef" ->
           map(findSourceColumn(expression.column, sourceColumns),
               LAMBDA column : column.nullability)
      [] expression.kind = "unaryOp" ->
           (CASE operatorNullSafety(expression.op) = "safe" ->
                  inferExpressionNullability(outsideCTEs, sourceColumns, nonNullExprs,
                                             expression.operand)
              [] operatorNullSafety(expression.op) \in {"unsafe", "alwaysNull"} ->
                  Right(any(TRUE))
              [] operatorNullSafety(expression.op) = "neverNull" -> Right(any(FALSE)))
      [] expression.kind = "binaryOp" ->
           (CASE operatorNullSafety(expression.op) = "safe" ->
                  map(sequenceAE(
                        << inferExpressionNullability(outsideCTEs, sourceColumns,
                                                      nonNullExprs, expression.lhs),
                           inferExpressionNullability(outsideCTEs, sourceColumns,
                                                      nonNullExprs, expression.rhs) >>),
                      LAMBDA both :
                        IF variant = "safeNeedsAll"
                        THEN any(both[1].nullable /\ both[2].nullable)
                        ELSE any(both[1].nullable \/ both[2].nullable))
              [] operatorNullSafety(expression.op) \in {"unsafe", "alwaysNull"} ->
                  Right(any(TRUE))
              [] operatorNullSafety(expression.op) = "neverNull" -> Right(any(FALSE)))
      [] expression.kind = "existsOp" -> Right(any(FALSE))
      [] expression.kind = "functionCall" ->
           (CASE functionNullSafety(expression.funcName) = "safe" ->
                  map(sequenceAE(
                        [i \in 1..Len(expression.argList) |->
                           inferExpressionNullability(outsideCTEs, sourceColumns,
                                                      nonNullExprs,
                                                      expression.argList[i])]),
                      LAMBDA argNullability :
                        IF variant = "safeNeedsAll"
                        THEN any(\A i \in 1..Len(argNullability) :
                                   argNullability[i].nullable)
                        ELSE any(\E i \in 1..Len(argNullability) :
                                   argNullability[i].nullable))
              [] functionNullSafety(expression.funcName) \in {"unsafe", "alwaysNull"} ->
                  Right(any(TRUE))
              [] functionNullSafety(expression.funcName) = "neverNull" ->
                  Right(any(FALSE)))
      [] expression.kind = "inOp" ->
           inferExpressionNullability(outsideCTEs, sourceColumns, nonNullExprs,
                                      expression.lhs)
      [] expression.kind = "arraySubQuery" ->
           chain(getOutputColumns(outsideCTEs, expression.subquery),
                 LAMBDA columns :
                   IF Len(columns) # 1
                   THEN Left("subquery must return only one column")
                   ELSE IF variant = "arrayArgumentsSwapped"
                        THEN Right(array(columns[1].nullability.nullable, FALSE))
                        ELSE Right(array(FALSE, columns[1].nullability.nullable)))
      [] expression.kind = "typeCast" ->
           inferExpressionNullability(outsideCTEs, sourceColumns, nonNullExprs,
                                      expression.lhs)
      [] expression.kind = "constant" -> Right(any(FALSE))
      [] expression.kind = "parameter" -> Right(any(TRUE))

\* inferExpressionNullability whose NULL-safe operators need all operands nullable
inferExpressionNullabilitySafeNeedsAll(outsideCTEs, sourceColumns, nonNullExprs, expression) ==
  inferExpressionNullabilityVariant("safeNeedsAll", outsideCTEs, sourceColumns,
                                    nonNullExprs, expression)

\* inferExpressionNullability whose ARRAY(subquery) swaps nullable and elemNullable
inferExpressionNullabilityArraySwapped(outsideCTEs, sourceColumns, nonNullExprs, expression) ==
  inferExpressionNullabilityVariant("arrayArgumentsSwapped", outsideCTEs,
                                    sourceColumns, nonNullExprs, expression)

inferExpressionNullability(outsideCTEs, sourceColumns, nonNullExprs, expression) ==
  IF \E i \in 1..Len(nonNullExprs) : expression = nonNullExprs[i]
  THEN Right(any(FALSE))
  ELSE
    CASE expression.kind = "tableColumnRef" ->
           map(findSourceTableColumn(expression.table, expression.column,
                                     sourceColumns),
               LAMBDA column : column.nullability)
      [] expression.kind = "columnRef" ->
           map(findSourceColumn(expression.column, sourceColumns),
               LAMBDA column : column.nullability)
      [] expression.kind = "unaryOp" ->
           (CASE operatorNullSafety(expression.op) = "safe" ->
                  inferExpressionNullability(outsideCTEs, sourceColumns, nonNullExprs,
                                             expression.operand)
              [] operatorNullSafety(expression.op) \in {"unsafe", "alwaysNull"} ->
                  Right(any(TRUE))
              [] operatorNullSafety(expression.op) = "neverNull" -> Right(any(FALSE)))
      [] expression.kind = "binaryOp" ->
           (CASE operatorNullSafety(expression.op) = "safe" ->
                  map(sequenceAE(
                        << inferExpressionNullability(outsideCTEs, sourceColumns,
                                                      nonNullExprs, expression.lhs),
                           inferExpressionNullability(outsideCTEs, sourceColumns,
                                                      nonNullExprs, expression.rhs) >>),
                      LAMBDA both : any(both[1].nullable \/ both[2].nullable))
              [] operatorNullSafety(expression.op) \in {"unsafe", "alwaysNull"} ->
                  Right(any(TRUE))
              [] operatorNullSafety(expression.op) = "neverNull" -> Right(any(FALSE)))
      [] expression.kind = "existsOp" -> Right(any(FALSE))
      [] expression.kind = "functionCall" ->
           (CASE functionNullSafety(expression.funcName) = "safe" ->
                  map(sequenceAE(
                        [i \in 1..Len(expression.argList) |->
                           inferExpressionNullability(outsideCTEs, sourceColumns,
                                                      nonNullExprs,
                                                      expression.argList[i])]),
                      LAMBDA argNullability :
                        any(\E i \in 1..Len(argNullability) :
                              argNullability[i].nullable))
              [] functionNullSafety(expression.funcName) \in {"unsafe", "alwaysNull"} ->
                  Right(any(TRUE))
              [] functionNullSafety(expression.funcName) = "neverNull" ->
                  Right(any(FALSE)))
      [] expression.kind = "inOp" ->
           inferExpressionNullability(outsideCTEs, sourceColumns, nonNullExprs,
                                      expression.lhs)
      [] expression.kind = "arraySubQuery" ->
           chain(getOutputColumns(outsideCTEs, expression.subquery),
                 LAMBDA columns :
                   IF Len(columns) # 1
                   THEN Left("subquery must return only one column")
                   ELSE Right(array(FALSE, columns[1].nullability.nullable)))
      [] expression.kind = "typeCast" ->
           inferExpressionNullability(outsideCTEs, sourceColumns, nonNullExprs,
                                      expression.lhs)
      [] expression.kind = "constant" -> Right(any(FALSE))
      [] expression.kind = "parameter" -> Right(any(TRUE))

\* columns.map(column => ({ name: column.columnName, nullability: ... }))
asVirtualFields(columns) ==
  [i \in 1..Len(columns) |->
     [name |-> columns[i].columnName, nullability |-> columns[i].nullability]]

inferSelectListItemOutput(outsideCTEs, sourceColumns, nonNullExpressions, selectListItem) ==
  CASE selectListItem.kind = "allFields" ->
         map(findNonHiddenSourceColumns(sourceColumns),
             LAMBDA columns :
               asVirtualFields(
                 applyExpressionNonNullability(nonNullExpressions, columns)))
    [] selectListItem.kind = "allTableFields" ->
         map(findNonHiddenSourceTableColumns(selectListItem.tableName, sourceColumns),
             LAMBDA columns :
               asVirtualFields(
                 applyExpressionNonNullability(nonNullExpressions, columns)))
    [] selectListItem.kind = "selectListExpression" ->
         map(inferExpressionNullability(outsideCTEs, sourceColumns,
                                        nonNullExpressions, selectListItem.expression),
             LAMBDA exprNullability :
               << virtualField(
                    IF selectListItem.as # <<>> THEN selectListItem.as
                    ELSE inferExpressionName(selectListItem.expression),
                    exprNullability) >>)

inferSelectListOutput(outsideCTEs, sourceColumns, where, selectList) ==
  map(sequenceAE(
        [i \in 1..Len(selectList) |->
           inferSelectListItemOutput(outsideCTEs, sourceColumns,
                                     getNonNullExpressionsFromWhere(where),
                                     selectList[i])]),
      flatten)

getOutputColumns(outsideCTEs, tree) ==
  CASE tree.kind = "select" ->
         chain(combineVirtualTables(outsideCTEs,
                                    getVirtualTablesForWithQueries(tree.ctes)),
               LAMBDA combinedCTEs :
                 chain(getSourceColumnsForTableExpr(combinedCTEs, tree.body.from,
                                                    FALSE),
                       LAMBDA sourceColumns :
                         inferSelectListOutput(combinedCTEs, sourceColumns,
                                               tree.body.where,
                                               tree.body.selectList)))
    [] tree.kind = "insert" ->
         chain(getSourceColumnsForTable(outsideCTEs, tree.table, tree.as),
               LAMBDA sourceColumns :
                 inferSelectListOutput(outsideCTEs, sourceColumns, Null,
                                       tree.returning))
    [] tree.kind = "update" ->
         chain(chain(combineVirtualTables(outsideCTEs,
                                          getVirtualTablesForWithQueries(tree.ctes)),
                     LAMBDA combinedCTEs :
                       combineSourceColumns(
                         << getSourceColumnsForTableExpr(combinedCTEs, tree.from,
                                                         FALSE),
                            getSourceColumnsForTable(combinedCTEs, tree.table,
                                                     tree.as) >>)),
               LAMBDA sourceColumns :
                 inferSelectListOutput(outsideCTEs, sourceColumns, tree.where,
                                       tree.returning))
    [] tree.kind = "delete" ->
         chain(getSourceColumnsForTable(outsideCTEs, tree.table, tree.as),
               LAMBDA sourceColumns :
                 inferSelectListOutput(outsideCTEs, sourceColumns, tree.where,
                                       tree.returning))

----------------------------------------------------------------------------
(* The column pass: binding the inferred fields back to the probed columns *)

RECURSIVE join(_)
\* Array.prototype.join(', ') on a list of strings
join(names) ==
  IF names = <<>> THEN <<>>
  ELSE IF Len(names) = 1 THEN names[1]
       ELSE names[1] \o <<",", " ">> \o join(Tail(names))

applyColumnNullability(stmt, outputColumns) ==
  IF Len(outputColumns) # Len(stmt.columns)
  THEN Left("BUG: Non-equal number of columns")
  ELSE LET inferredColumnNames ==
             join([i \in 1..Len(outputColumns) |-> outputColumns[i].name])
           actualColumnNames ==
             join([i \in 1..Len(stmt.columns) |-> stmt.columns[i].name])
       IN IF inferredColumnNames # actualColumnNames
          THEN Left("BUG: Inferred output column names do not equal actual")
          ELSE Right([stmt EXCEPT !.columns =
                 [i \in 1..Min(Len(stmt.columns), Len(outputColumns)) |->
                    LET column == stmt.columns[i]
                        inferred == outputColumns[i]
                    IN IF inferred.nullability.kind = "Any"
                       THEN [column EXCEPT !.nullable = inferred.nullability.nullable]
                       ELSE [column EXCEPT
                               !.type = [kind |-> "Array", oid |-> column.type.oid,
                                         elemNullable |->
                                           inferred.nullability.elemNullable],
                               !.nullable = inferred.nullability.nullable]]])

----------------------------------------------------------------------------
(* The parameter pass *)

\* Option values: none is <<>>, some(x) is <<x>>
none == <<>>

some(x) == << x >>

\* Array.filterMap(identity): the values of the somes, in order
RECURSIVE filterMapIdentity(_)
filterMapIdentity(options) ==
  IF options = <<>> THEN <<>>
  ELSE Head(options) \o filterMapIdentity(Tail(options))

\* paramIndexFromExpr that also finds the parameter inside an operator expression
paramIndexFromExprDeep(expression) ==
  IF expression = Null THEN none
  ELSE IF expression.kind = "parameter" THEN some(expression.index - 1)
       ELSE IF expression.kind = "binaryOp" /\ expression.lhs.kind = "parameter"
            THEN some(expression.lhs.index - 1)
            ELSE none

paramIndexFromExpr(expression) ==
  IF expression = Null THEN none
  ELSE IF expression.kind = "parameter" THEN some(expression.index - 1) ELSE none

findParamsFromValues(values, numInsertColumns) ==
  CASE values.kind = "defaultValues" -> << [i \in 1..numInsertColumns |-> none] >>
    [] values.kind = "exprValues" ->
         [t \in 1..Len(values.valuesList) |->
            [i \in 1..Len(values.valuesList[t]) |->
               paramIndexFromExpr(values.valuesList[t][i])]]

makeParamNullability(index, column) ==
  IF index = none THEN none
  ELSE some([index |-> index[1], nullable |-> column.nullable])

updateToParamNullability(dbTable, update) ==
  map(findTableColumn(update.columnName, dbTable),
      LAMBDA column : makeParamNullability(paramIndexFromExpr(update.value), column))

findParamNullabilityFromUpdates(table, updates) ==
  map(chain(getTable(table.schema, table.table),
            LAMBDA dbTable :
              sequenceAE([i \in 1..Len(updates) |->
                            updateToParamNullability(dbTable, updates[i])])),
      filterMapIdentity)

findInsertColumns(table, columnNames) ==
  chain(getTable(table.schema, table.table),
        LAMBDA dbTable :
          sequenceAE([i \in 1..Len(columnNames) |->
                        findTableColumn(columnNames[i], dbTable)]))

combineParamNullability(valuesListParams, targetColumns) ==
  filterMapIdentity(flatten(
    [t \in 1..Len(valuesListParams) |->
       [i \in 1..Min(Len(targetColumns), Len(valuesListParams[t])) |->
          IF valuesListParams[t][i] = none THEN none
          ELSE some([index |-> valuesListParams[t][i][1],
                     nullable |-> targetColumns[i].nullable])]]))

\* ParamNullability[] | null: Null, or the list wrapped in a record
recordsOf(list) == [kind |-> "records", list |-> list]

getParamNullability(tree) ==
  CASE tree.kind = "select" -> Right(Null)
    [] tree.kind = "insert" ->
         map(findInsertColumns(tree.table, tree.columns),
             LAMBDA targetColumns :
               recordsOf(combineParamNullability(
                           findParamsFromValues(tree.values, Len(tree.columns)),
                           targetColumns)))
    [] tree.kind = "update" ->
         map(findParamNullabilityFromUpdates(tree.table, tree.updates), recordsOf)
    [] tree.kind = "delete" -> Right(Null)

\* applyParamNullability in which the last record of a parameter decides
applyParamNullabilityLastWins(stmt, paramNullability) ==
  LET nullability ==
        [k \in 1..Len(stmt.params) |->
           \E r \in 1..Len(paramNullability) :
             /\ paramNullability[r].index = k - 1
             /\ paramNullability[r].nullable
             /\ \A q \in (r + 1)..Len(paramNullability) :
                  paramNullability[q].index # k - 1]
  IN Right([stmt EXCEPT !.params =
              [k \in 1..Len(stmt.params) |->
                 [stmt.params[k] EXCEPT !.nullable = nullability[k]]]])

applyParamNullability(stmt, paramNullability) ==
  LET nullability ==
        [k \in 1..Len(stmt.params) |->
           \E r \in 1..Len(paramNullability) :
             /\ paramNullability[r].index = k - 1
             /\ paramNullability[r].nullable]
  IN Right([stmt EXCEPT !.params =
              [k \in 1..Len(stmt.params) |->
                 [stmt.params[k] EXCEPT !.nullable = nullability[k]]]])

----------------------------------------------------------------------------
(* The row count pass *)

\* inferRowCount that does not look at the number of VALUES tuples
inferRowCountIgnoresTuples(statement, astNode) ==
  LET rowCount ==
        CASE astNode.kind = "select" ->
               IF /\ astNode.limit # Null
                  /\ astNode.limit.count # Null
                  /\ isConstantExprOf("1", astNode.limit.count)
               THEN "zeroOrOne"
               ELSE "many"
          [] astNode.kind = "insert" ->
               IF astNode.values.kind = "defaultValues" THEN "one"
               ELSE IF Len(astNode.returning) # 0 THEN "one" ELSE "zero"
          [] astNode.kind = "update" ->
               IF Len(astNode.returning) # 0 THEN "many" ELSE "zero"
          [] astNode.kind = "delete" ->
               IF Len(astNode.returning) # 0 THEN "many" ELSE "zero"
  IN [statement EXCEPT !.rowCount = rowCount]

inferRowCount(statement, astNode) ==
  LET rowCount ==
        CASE astNode.kind = "select" ->
               IF /\ astNode.limit # Null
                  /\ astNode.limit.count # Null
                  /\ isConstantExprOf("1", astNode.limit.count)
               THEN "zeroOrOne"
               ELSE "many"
          [] astNode.kind = "insert" ->
               IF astNode.values.kind = "defaultValues" THEN "one"
               ELSE IF Len(astNode.returning) # 0
                    THEN IF Len(astNode.values.valuesList) = 1 THEN "one" ELSE "many"
                    ELSE "zero"
          [] astNode.kind = "update" ->
               IF Len(astNode.returning) # 0 THEN "many" ELSE "zero"
          [] astNode.kind = "delete" ->
               IF Len(astNode.returning) # 0 THEN "many" ELSE "zero"
  IN [statement EXCEPT !.rowCount = rowCount]

----------------------------------------------------------------------------
(* AST nodes, as the parser builds them *)

ColumnRef(column) == [kind |-> "columnRef", column |-> column]

TableColumnRef(table, column) ==
  [kind |-> "tableColumnRef", table |-> table, column |-> column]

Constant(valueText) == [kind |-> "constant", valueText |-> valueText]

Parameter(index) == [kind |-> "parameter", index |-> index]

UnaryOp(op, operand) == [kind |-> "unaryOp", op |-> op, operand |-> operand]

BinaryOp(lhs, op, rhs) == [kind |-> "binaryOp", lhs |-> lhs, op |-> op, rhs |-> rhs]

FunctionCall(funcName, argList) ==
  [kind |-> "functionCall", funcName |-> funcName, argList |-> argList]

ArraySubQuery(subquery) == [kind |-> "arraySubQuery", subquery |-> subquery]

AllFields == [kind |-> "allFields"]

AllTableFields(tableName) == [kind |-> "allTableFields", tableName |-> tableName]

SelectListExpression(expression, as) ==
  [kind |-> "selectListExpression", expression |-> expression, as |-> as]

TableRef(schema, table) == [schema |-> schema, table |-> table]

Table(table, as) == [kind |-> "table", table |-> TableRef(<<>>, table), as |-> as]

SubQuery(query, as) == [kind |-> "subQuery", query |-> query, as |-> as]

CrossJoin(left, right) == [kind |-> "crossJoin", left |-> left, right |-> right]

QualifiedJoin(left, joinType, right, condition) ==
  [kind |-> "qualifiedJoin", left |-> left, joinType |-> joinType,
   right |-> right, condition |-> condition]

Limit(count, offset) == [count |-> count, offset |-> offset]

WithQuery(as, query) == [as |-> as, query |-> query]

Select(ctes, selectList, from, where, limit) ==
  [kind |-> "select", ctes |-> ctes,
   body |-> [selectList |-> selectList, from |-> from, where |-> where],
   limit |-> limit]

DefaultValues == [kind |-> "defaultValues"]

ExprValues(valuesList) == [kind |-> "exprValues", valuesList |-> valuesList]

Insert(table, as, columns, values, returning) ==
  [kind |-> "insert", table |-> TableRef(<<>>, table), as |-> as,
   columns |-> columns, values |-> values, returning |-> returning]

UpdateAssignment(columnName, value) == [columnName |-> columnName, value |-> value]

Update(ctes, table, as, updates, from, where, returning) ==
  [kind |-> "update", ctes |-> ctes, table |-> TableRef(<<>>, table), as |-> as,
   updates |-> updates, from |-> from, where |-> where, returning |-> returning]

Delete(table, as, where, returning) ==
  [kind |-> "delete", table |-> TableRef(<<>>, table), as |-> as,
   where |-> where, returning |-> returning]

\* parse(statement.sql): the text either parses to its tree or does not parse
parse(sql) == IF sql.parses THEN Right(sql.ast) ELSE Left("parse error")

----------------------------------------------------------------------------
(* The statements given to inferStatementNullability *)

MaxParams == 2

MaxTuples == 2

MaxUpdates == 2

\* sequences over S of length lo..hi
SeqsOf(S, lo, hi) == UNION { [1..n -> S] : n \in lo..hi }

RECURSIVE paramIndexes(_)
\* the positional parameters an expression without subqueries mentions
paramIndexes(e) ==
  IF e = Null THEN {}
  ELSE CASE e.kind = "parameter" -> { e.index }
         [] e.kind = "binaryOp" -> paramIndexes(e.lhs) \cup paramIndexes(e.rhs)
         [] e.kind = "unaryOp" -> paramIndexes(e.operand)
         [] e.kind = "functionCall" ->
              UNION { paramIndexes(e.argList[i]) : i \in 1..Len(e.argList) }
         [] OTHER -> {}

\* the driver probe reports one parameter for each of $1..$n the text uses
probedParamCount(exprs) ==
  LET used == UNION { paramIndexes(e) : e \in exprs }
  IN IF used = {} THEN 0 ELSE CHOOSE n \in used : \A m \in used : m <= n

\* the StatementDescription of the driver probe: nullable columns, row count many
Description(sql, names, paramNullable) ==
  [sql |-> sql,
   columns |-> [i \in 1..Len(names) |->
                  [name |-> names[i], type |-> [kind |-> "Any", oid |-> 23],
                   nullable |-> TRUE]],
   params |-> [k \in 1..Len(paramNullable) |->
                 [oid |-> 23, nullable |-> paramNullable[k]]],
   rowCount |-> "many"]

Parsed(tree) == [parses |-> TRUE, ast |-> tree]

Unparsed == [parses |-> FALSE, ast |-> Null]

\* the expressions of a statement that may hold parameters
statementExprs(tree) ==
  CASE tree.kind = "select" ->
         { tree.body.where }
           \cup (IF tree.limit = Null THEN {}
                 ELSE { tree.limit.count, tree.limit.offset })
    [] tree.kind = "insert" ->
         IF tree.values.kind = "defaultValues" THEN {}
         ELSE { tree.values.valuesList[t][i] :
                  t \in 1..Len(tree.values.valuesList),
                  i \in 1..Len(tree.values.valuesList[1]) }
    [] tree.kind = "update" ->
         { tree.updates[i].value : i \in 1..Len(tree.updates) } \cup { tree.where }
    [] tree.kind = "delete" -> { tree.where }

\* the probed descriptions of the statements trees, the probe reporting one of
\* nameLists as the column names
Descriptions(trees, nameLists) ==
  UNION { { Description(Parsed(tree), names, flags) :
              names \in nameLists,
              flags \in { [k \in 1..probedParamCount(statementExprs(tree)) |-> b] :
                           b \in BOOLEAN } } :
          tree \in trees }

AgeIsNotNull == UnaryOp("IS NOT NULL", ColumnRef(s_age))

IdEquals(k) == BinaryOp(ColumnRef(s_id), "=", Parameter(k))

Item(expression) == SelectListExpression(expression, <<>>)

ArrayOf(selectList) ==
  SelectListExpression(
    ArraySubQuery(Select(<<>>, selectList, Table(s_person, <<>>), Null, Null)),
    s_arr)

(* SELECT: select lists, FROM, WHERE and LIMIT *)

SelectLists ==
  { << AllFields >>,
    << AllTableFields(s_person) >>,
    << Item(ColumnRef(s_name)), Item(ColumnRef(s_age)) >>,
    << Item(ColumnRef(s_bogus)) >>,
    << ArrayOf(<< Item(ColumnRef(s_name)) >>) >>,
    << ArrayOf(<< Item(ColumnRef(s_age)) >>) >>,
    << ArrayOf(<<>>) >>,
    << ArrayOf(<< Item(ColumnRef(s_id)), Item(ColumnRef(s_name)) >>) >>,
    << Item(FunctionCall("count", <<>>)) >>,
    << Item(Constant("1")) >> }

Limits ==
  { Null, Limit(Constant("1"), Null), Limit(Constant("2"), Null),
    Limit(Parameter(1), Null), Limit(Null, Constant("1")),
    Limit(Constant("1"), Constant("1")) }

SelectNames ==
  { <<>>, << s_id, s_name, s_age >>, << s_name, s_age >>, << s_age, s_name >>,
    << s_name >>, << s_arr >>, << s_column >>, << s_bogus >> }

SelectTrees ==
  { Select(<<>>, selectList, from, where, limit) :
      selectList \in SelectLists,
      from \in { Null, Table(s_person, <<>>), Table(s_nosuch, <<>>) },
      where \in { Null, AgeIsNotNull },
      limit \in Limits }

(* SELECT * over join trees of person AS p, t and a subquery s with an array column *)

LeafP == Table(s_person, s_p)

LeafT == Table(s_t, <<>>)

LeafS == SubQuery(Select(<<>>, << ArrayOf(<< Item(ColumnRef(s_name)) >>) >>,
                         Null, Null, Null), s_q)

JoinTypes == { "INNER", "LEFT", "RIGHT", "FULL" }

JoinOf(left, joinType, right) ==
  IF joinType = "CROSS" THEN CrossJoin(left, right)
  ELSE QualifiedJoin(left, joinType, right, Constant("true"))

JoinExprs ==
  { LeafP, LeafT, LeafS }
  \cup { JoinOf(pair[1], jt, pair[2]) :
           pair \in { << LeafP, LeafT >>, << LeafP, LeafS >>, << LeafT, LeafS >> },
           jt \in JoinTypes \cup { "CROSS" } }
  \cup { JoinOf(JoinOf(LeafP, jt1, LeafT), jt2, LeafS) :
           jt1 \in JoinTypes \cup { "CROSS" }, jt2 \in JoinTypes \cup { "CROSS" } }
  \cup { JoinOf(LeafP, jt2, JoinOf(LeafT, jt1, LeafS)) :
           jt1 \in JoinTypes \cup { "CROSS" }, jt2 \in JoinTypes \cup { "CROSS" } }

JoinTrees == { Select(<<>>, << AllFields >>, from, Null, Null) : from \in JoinExprs }

JoinNames ==
  { << s_id, s_name, s_age, s_a >>, << s_id, s_name, s_age, s_arr >>,
    << s_a, s_arr >>, << s_id, s_name, s_age, s_a, s_arr >>,
    << s_id, s_name, s_age >>, << s_a >>, << s_arr >> }

(* INSERT: VALUES tuples over parameters, constants, expressions and DEFAULT *)

ValueExprs ==
  { Parameter(k) : k \in 1..MaxParams }
  \cup { Constant("1"), BinaryOp(Parameter(1), "+", Constant("1")), Null }

ReturningLists == { <<>>, << Item(ColumnRef(s_id)) >> }

ReturningNames == { <<>>, << s_id >> }

InsertTrees ==
  { Insert(s_person, <<>>, << s_name, s_age >>, values, returning) :
      values \in { DefaultValues }
                   \cup { ExprValues(<< tuple >>) : tuple \in [1..2 -> ValueExprs] },
      returning \in ReturningLists }
  \cup { Insert(s_person, <<>>, << column >>, ExprValues(valuesList), returning) :
           column \in { s_name, s_age },
           valuesList \in SeqsOf([1..1 -> ValueExprs], 2, MaxTuples),
           returning \in ReturningLists }

InsertErrorTrees ==
  { Insert(table, <<>>, columns, values, returning) :
      table \in { s_person, s_nosuch },
      columns \in { << s_name >>, << s_bogus >>, << s_name, s_bogus >> },
      values \in { DefaultValues, ExprValues(<< << Parameter(1) >> >>) },
      returning \in { <<>>, << Item(ColumnRef(s_id)) >>, << Item(ColumnRef(s_bogus)) >>,
                      << AllFields >> } }

(* UPDATE: SET lists, and FROM with RETURNING * *)

UpdateValueExprs ==
  { Parameter(1), Parameter(MaxParams), BinaryOp(Parameter(1), "+", Constant("1")) }

UpdateTrees ==
  { Update(<<>>, s_person, <<>>, updates, Null, where, returning) :
      updates \in SeqsOf({ UpdateAssignment(column, value) :
                             column \in { s_name, s_age },
                             value \in UpdateValueExprs }, 1, MaxUpdates),
      where \in { Null, IdEquals(MaxParams) },
      returning \in ReturningLists }

UpdateFromTrees ==
  { Update(<<>>, table, <<>>, << UpdateAssignment(column, Parameter(1)) >>,
           from, Null, returning) :
      table \in { s_person, s_nosuch, s_t },
      column \in { s_name, s_a, s_bogus },
      from \in { Null, Table(s_u, <<>>) },
      returning \in { <<>>, << AllFields >> } }

UpdateFromNames ==
  { <<>>, << s_id, s_name, s_age >>, << s_a, s_a_a >>, << s_a_a, s_a >>, << s_a >> }

(* DELETE *)

DeleteTrees ==
  { Delete(table, <<>>, where, returning) :
      table \in { s_person, s_nosuch },
      where \in { Null, IdEquals(1) },
      returning \in { <<>>, << AllFields >>, << Item(ColumnRef(s_bogus)) >> } }

(* SELECT over person AS p: WHERE clauses that refine, operators and functions *)

AgeOf(table) == TableColumnRef(table, s_age)

AgePlusId == BinaryOp(ColumnRef(s_age), "+", ColumnRef(s_id))

RefineWheres ==
  { Null,
    AgeIsNotNull,
    UnaryOp("NOTNULL", ColumnRef(s_age)),
    UnaryOp("IS NOT NULL", AgeOf(s_p)),
    UnaryOp("IS NOT NULL", TableColumnRef(s_p, s_id)),
    UnaryOp("IS NULL", ColumnRef(s_age)),
    UnaryOp("NOT", AgeIsNotNull),
    UnaryOp("IS NOT NULL", AgePlusId),
    BinaryOp(ColumnRef(s_age), "=", Parameter(1)),
    BinaryOp(ColumnRef(s_age), "/", Parameter(1)),
    BinaryOp(AgeIsNotNull, "OR", IdEquals(1)),
    BinaryOp(AgeIsNotNull, "AND", IdEquals(1)),
    BinaryOp(BinaryOp(AgeIsNotNull, "OR", IdEquals(1)), "AND",
             UnaryOp("NOTNULL", AgeOf(s_q))),
    FunctionCall("lower", << ColumnRef(s_age), ColumnRef(s_name) >>),
    FunctionCall("coalesce", << ColumnRef(s_age) >>) }

Operands == { ColumnRef(s_id), ColumnRef(s_age) }

OperatorExprs ==
  { UnaryOp(op, x) : op \in { "-", "NOT", "IS NULL" }, x \in Operands }
  \cup { BinaryOp(x, op, y) :
           op \in { "+", "/", "IS DISTINCT FROM" }, x \in Operands, y \in Operands }
  \cup { FunctionCall(funcName, argList) :
           funcName \in { "lower", "count", "nullfn", "coalesce" },
           argList \in { <<>>, << ColumnRef(s_id) >>, << ColumnRef(s_age) >>,
                         << ColumnRef(s_id), ColumnRef(s_age) >> } }

RefineLists ==
  { << AllFields >>,
    << AllTableFields(s_p) >>,
    << Item(ColumnRef(s_age)), Item(AgeOf(s_p)) >>,
    << Item(ColumnRef(s_ctid)), Item(AgeOf(s_q)) >> }
  \cup { << Item(e) >> : e \in OperatorExprs }

RefineFroms == { LeafP, JoinOf(LeafP, "INNER", Table(s_person, s_q)) }

RefineTrees ==
  { Select(<<>>, selectList, from, where, Null) :
      selectList \in RefineLists, from \in RefineFroms, where \in RefineWheres }

RefineNames ==
  { << s_id, s_name, s_age >>, << s_age, s_age >>, << s_column >> }

(* WITH: sibling CTEs, and a WITH clause nested in a subquery or in a CTE *)

IdOfPerson ==
  Select(<<>>, << Item(ColumnRef(s_id)) >>, Table(s_person, <<>>), Null, Null)

AllOf(table) == Select(<<>>, << AllFields >>, Table(table, <<>>), Null, Null)

\* WITH c AS (SELECT * FROM table) SELECT * FROM c
AllThroughCte(table) ==
  Select(<< WithQuery(s_c, AllOf(table)) >>, << AllFields >>, Table(s_c, <<>>),
         Null, Null)

CteTrees ==
  UNION { { Select(<< WithQuery(outer, IdOfPerson) >>, << AllFields >>,
                   Table(outer, <<>>), Null, Null),
            Select(<< WithQuery(outer, IdOfPerson), WithQuery(s_c, AllOf(outer)) >>,
                   << AllFields >>, Table(s_c, <<>>), Null, Null),
            Select(<< WithQuery(outer, IdOfPerson) >>, << AllFields >>,
                   SubQuery(AllOf(outer), s_p), Null, Null),
            Select(<< WithQuery(outer, IdOfPerson) >>, << AllFields >>,
                   SubQuery(AllThroughCte(outer), s_p), Null, Null),
            Select(<< WithQuery(outer, IdOfPerson),
                      WithQuery(s_p, AllThroughCte(outer)) >>,
                   << AllFields >>, Table(s_p, <<>>), Null, Null) } :
          outer \in { s_t, s_q } }

CteNames == { << s_id >>, << s_a >> }

(* UPDATE with a WITH clause: the CTE in FROM and in an ARRAY(subquery) of RETURNING *)

\* ARRAY(SELECT * FROM table) AS arr
ArrayFrom(table) == SelectListExpression(ArraySubQuery(AllOf(table)), s_arr)

UpdateCteTrees ==
  UNION { { Update(<< WithQuery(cte, IdOfPerson) >>, s_person, <<>>,
                   << UpdateAssignment(s_name, Constant("1")) >>, from, Null,
                   returning) :
              from \in { Null, Table(cte, <<>>) },
              returning \in { << AllFields >>, << ArrayFrom(cte) >>,
                              << Item(ColumnRef(s_name)) >> } } :
          cte \in { s_c, s_t } }

UpdateCteNames ==
  { << s_arr >>, << s_name >>, << s_id, s_id, s_name, s_age >> }

(* WITH nested under a CTE of the same name *)

\* the queries of the inner CTE: SELECT name FROM person, SELECT age AS id FROM person
InnerQueries ==
  { Select(<<>>, << Item(ColumnRef(s_name)) >>, Table(s_person, <<>>), Null, Null),
    Select(<<>>, << SelectListExpression(ColumnRef(s_age), s_id) >>,
           Table(s_person, <<>>), Null, Null) }

\* WITH c AS (inner) SELECT * FROM c
ThroughInnerCte(inner) ==
  Select(<< WithQuery(s_c, inner) >>, << AllFields >>, Table(s_c, <<>>), Null, Null)

\* the nested WITH in a FROM subquery, or in a second CTE, under the CTE outer
Shadow(shape, outer, inner) ==
  IF shape = "subquery"
  THEN Select(<< WithQuery(outer, IdOfPerson) >>, << AllFields >>,
              SubQuery(ThroughInnerCte(inner), s_p), Null, Null)
  ELSE Select(<< WithQuery(outer, IdOfPerson),
                 WithQuery(s_p, ThroughInnerCte(inner)) >>,
              << AllFields >>, Table(s_p, <<>>), Null, Null)

ShadowShapes == { "subquery", "cte" }

ShadowTrees ==
  { Shadow(shape, outer, inner) :
      shape \in ShadowShapes, outer \in { s_c, s_q }, inner \in InnerQueries }

ShadowNames == { << s_id >>, << s_name >> }

Statements ==
  Descriptions(SelectTrees, SelectNames)
  \cup Descriptions(JoinTrees, JoinNames)
  \cup Descriptions(InsertTrees, ReturningNames)
  \cup Descriptions(InsertErrorTrees, ReturningNames \cup { << s_id, s_name, s_age >> })
  \cup Descriptions(UpdateTrees, ReturningNames)
  \cup Descriptions(UpdateFromTrees, UpdateFromNames)
  \cup Descriptions(DeleteTrees, ReturningNames \cup { << s_id, s_name, s_age >> })
  \cup Descriptions(RefineTrees, RefineNames)
  \cup Descriptions(CteTrees, CteNames)
  \cup Descriptions(UpdateCteTrees, UpdateCteNames)
  \cup Descriptions(ShadowTrees, ShadowNames)
  \cup { Description(Unparsed, names, [k \in 1..n |-> b]) :
           names \in SelectNames, n \in 0..MaxParams, b \in BOOLEAN }

----------------------------------------------------------------------------
(* inferStatementNullability as a pipeline of steps *)

VARIABLES
  statement,        \* the StatementDescription the caller passes in
  pc,               \* the step of the pipe that runs next
  astNode,          \* the tree parse returned
  outputColumns,    \* the VirtualFields getOutputColumns returned
  paramNullability, \* the records getParamNullability returned, or Null
  stmt,             \* the StatementDescription threaded through the passes
  failure,          \* the Left that ended the chain, or Null
  result,           \* what the returned TaskEither resolves to, or Null
  warned,           \* whether console.warn was called
  passes            \* the passes that have run, in order

\* the state of watch mode (cli.ts, watchDirectories)
VARIABLES
  moduleDirs,       \* let moduleDirs: the TsModuleDir of each watched directory
  eventBuffer,      \* const eventBuffer: the WatchEvents not yet shifted
  handlingEvents,   \* let handlingEvents
  drains,           \* the handleWatchEvents calls awaiting their event handler
  arrived,          \* the number of watch callbacks so far
  handled           \* the event handled last and what came of it, or Null

inferVars == << statement, pc, astNode, outputColumns, paramNullability, stmt,
                failure, result, warned, passes >>

watchVars == << moduleDirs, eventBuffer, handlingEvents, drains, arrived, handled >>

vars == << statement, pc, astNode, outputColumns, paramNullability, stmt,
           failure, result, warned, passes, moduleDirs, eventBuffer,
           handlingEvents, drains, arrived, handled >>

\* watch mode is not running
WatchIdle ==
  /\ moduleDirs = <<>>
  /\ eventBuffer = <<>>
  /\ handlingEvents = FALSE
  /\ drains = <<>>
  /\ arrived = 0
  /\ handled = Null

Init ==
  /\ statement \in Statements
  /\ pc = "parse"
  /\ astNode = Null
  /\ outputColumns = <<>>
  /\ paramNullability = Null
  /\ stmt = statement
  /\ failure = Null
  /\ result = Null
  /\ warned = FALSE
  /\ passes = <<>>
  /\ WatchIdle

\* a Left anywhere in the chain skips the rest of it and reaches orElse
Fail(e) ==
  /\ pc' = "orElse"
  /\ failure' = e

\* TaskEither.fromEither(parse(statement.sql))
Parse ==
  /\ pc = "parse"
  /\ LET parsed == parse(statement.sql)
     IN IF isLeft(parsed)
        THEN Fail(parsed) /\ UNCHANGED astNode
        ELSE /\ astNode' = parsed.right
             /\ pc' = "getOutputColumns"
             /\ UNCHANGED failure
  /\ UNCHANGED << statement, outputColumns, paramNullability, stmt, result, warned, passes >>
  /\ UNCHANGED watchVars

\* inferColumnNullability, first half: getOutputColumns(client, [], tree)
GetOutputColumns ==
  /\ pc = "getOutputColumns"
  /\ LET columns == getOutputColumns(<<>>, astNode)
     IN IF isLeft(columns)
        THEN Fail(columns) /\ UNCHANGED outputColumns
        ELSE /\ outputColumns' = columns.right
             /\ pc' = "applyColumnNullability"
             /\ UNCHANGED failure
  /\ passes' = Append(passes, "column")
  /\ UNCHANGED << statement, astNode, paramNullability, stmt, result, warned >>
  /\ UNCHANGED watchVars

\* inferColumnNullability, second half: applyColumnNullability
ApplyColumnNullability ==
  /\ pc = "applyColumnNullability"
  /\ LET applied == applyColumnNullability(stmt, outputColumns)
     IN IF isLeft(applied)
        THEN Fail(applied) /\ UNCHANGED stmt
        ELSE /\ stmt' = applied.right
             /\ pc' = "getParamNullability"
             /\ UNCHANGED failure
  /\ UNCHANGED << statement, astNode, outputColumns, paramNullability, result, warned, passes >>
  /\ UNCHANGED watchVars

\* inferParamNullability, first half: getParamNullability(client, tree)
GetParamNullability ==
  /\ pc = "getParamNullability"
  /\ LET records == getParamNullability(astNode)
     IN IF isLeft(records)
        THEN Fail(records) /\ UNCHANGED paramNullability
        ELSE /\ paramNullability' = records.right
             /\ pc' = "applyParamNullability"
             /\ UNCHANGED failure
  /\ passes' = Append(passes, "param")
  /\ UNCHANGED << statement, astNode, outputColumns, stmt, result, warned >>
  /\ UNCHANGED watchVars

\* inferParamNullability, second half: a null list leaves the statement alone
ApplyParamNullability ==
  /\ pc = "applyParamNullability"
  /\ LET applied == IF paramNullability # Null
                    THEN applyParamNullability(stmt, paramNullability.list)
                    ELSE Right(stmt)
     IN IF isLeft(applied)
        THEN Fail(applied) /\ UNCHANGED stmt
        ELSE /\ stmt' = applied.right
             /\ pc' = "inferRowCount"
             /\ UNCHANGED failure
  /\ UNCHANGED << statement, astNode, outputColumns, paramNullability, result, warned, passes >>
  /\ UNCHANGED watchVars

\* TaskEither.map(stmt => inferRowCount(stmt, astNode)): the chain ends Right
InferRowCount ==
  /\ pc = "inferRowCount"
  /\ stmt' = inferRowCount(stmt, astNode)
  /\ result' = Right(stmt')
  /\ pc' = "done"
  /\ passes' = Append(passes, "rowCount")
  /\ UNCHANGED << statement, astNode, outputColumns, paramNullability, failure,
                  warned >>
  /\ UNCHANGED watchVars

\* orElse that passes the error on instead of recovering
OrElseRethrows ==
  /\ pc = "orElse"
  /\ warned' = TRUE
  /\ result' = failure
  /\ pc' = "done"
  /\ UNCHANGED << statement, astNode, outputColumns, paramNullability, stmt,
                  failure, passes >>
  /\ UNCHANGED watchVars

\* orElse that returns the statement as far as the passes refined it
OrElseKeepsRefinements ==
  /\ pc = "orElse"
  /\ warned' = TRUE
  /\ result' = Right(stmt)
  /\ pc' = "done"
  /\ UNCHANGED << statement, astNode, outputColumns, paramNullability, stmt,
                  failure, passes >>
  /\ UNCHANGED watchVars

\* TaskEither.orElse: warn, and return the statement as it was given
OrElse ==
  /\ pc = "orElse"
  /\ warned' = TRUE
  /\ result' = Right(statement)
  /\ pc' = "done"
  /\ UNCHANGED << statement, astNode, outputColumns, paramNullability, stmt,
                  failure, passes >>
  /\ UNCHANGED watchVars

Next ==
  \/ Parse
  \/ GetOutputColumns
  \/ ApplyColumnNullability
  \/ GetParamNullability
  \/ ApplyParamNullability
  \/ InferRowCount
  \/ OrElse

Spec == Init /\ [][Next]_vars


----------------------------------------------------------------------------
(* Properties of the entry point *)

\* the result is Right of a description equal to d in every field
ReturnsUnchanged(d) ==
  /\ isRight(result)
  /\ result.right.sql = d.sql
  /\ result.right.columns = d.columns
  /\ result.right.params = d.params
  /\ result.right.rowCount = d.rowCount

\* the two errors of applyColumnNullability
MismatchErrors ==
  { "BUG: Non-equal number of columns",
    "BUG: Inferred output column names do not equal actual" }

\* the errors of the passes that spec section 7 calls recoverable
RecoverableErrors ==
  { "Unknown column", "No such table", "subquery must return only one column",
    "No columns", "No visible columns for table" }

\* C1: when parsing statement.sql fails, the entry point ends Right with a
\* description equal to the input in sql, columns, params and rowCount, and none
\* of the column, parameter and row count passes has run.
C1_ParseFailureReturnsRaw ==
  (pc = "done" /\ isLeft(parse(statement.sql)))
    => (ReturnsUnchanged(statement) /\ passes = <<>> /\ warned)

C1_Witness ==
  /\ pc = "done"
  /\ ~statement.sql.parses
  /\ Len(statement.columns) > 0
  /\ Len(statement.params) > 0
  /\ isRight(result)

\* C2: when applyColumnNullability finds the inferred columns not to match
\* raw.columns (another count, or another name), the entry point returns Left.
C2_MismatchReturnsErr ==
  (pc = "done" /\ failure # Null /\ failure.left \in MismatchErrors)
    => isLeft(result)

\* C3: when parsing succeeds and a pass fails with a recoverable error, the entry
\* point ends Right with a description equal to raw in every field; the columns
\* the column pass had refined before the parameter pass failed are not kept.
C3_RecoverableErrorReturnsRaw ==
  (pc = "done" /\ failure # Null /\ statement.sql.parses
     /\ failure.left \in RecoverableErrors)
    => ReturnsUnchanged(statement)

C3_Witness ==
  /\ pc = "done"
  /\ passes = << "column", "param" >>
  /\ failure # Null
  /\ failure.left = "Unknown column"
  /\ stmt.columns # statement.columns
  /\ result = Right(statement)


----------------------------------------------------------------------------
(* Properties of the column pass *)

\* the inferred fields have the count of raw.columns and, position by position,
\* their names
ColumnsAligned ==
  /\ Len(outputColumns) = Len(statement.columns)
  /\ \A i \in 1..Len(outputColumns) :
       outputColumns[i].name = statement.columns[i].name

\* C4: applyColumnNullability succeeds if and only if the inferred fields have the
\* length of raw.columns and the same name at every position; when it succeeds,
\* column i has raw's name i and the nullability inferred for position i.
C4_ApplySucceedsIffAligned ==
  /\ pc = "getParamNullability"
       => /\ ColumnsAligned
          /\ \A i \in 1..Len(stmt.columns) :
               /\ stmt.columns[i].name = statement.columns[i].name
               /\ stmt.columns[i].nullable = outputColumns[i].nullability.nullable
  /\ (pc = "orElse" /\ failure.left \in MismatchErrors) => ~ColumnsAligned

----------------------------------------------------------------------------
(* Properties of the parameter pass *)

\* the parameter pass has run to its end
ParamPassDone == pc \in { "inferRowCount", "done" } /\ failure = Null

\* whether the collected records hold one for params[k]
HasRecord(k) ==
  /\ paramNullability # Null
  /\ \E r \in 1..Len(paramNullability.list) : paramNullability.list[r].index = k - 1

\* C5: a parameter without a column-bound record keeps the nullable of
\* raw.params, whatever the kind of the statement.
C5_UnboundParamsKeepRaw ==
  ParamPassDone
    => \A k \in 1..Len(statement.params) :
         ~HasRecord(k) => stmt.params[k].nullable = statement.params[k].nullable

\* the NOT NULL status the database gives the column of a table
TargetNullable(table, columnName) ==
  LET dbTable == CHOOSE t \in { Tables[i] : i \in 1..Len(Tables) } :
                   t.name = table.table
      column == CHOOSE c \in { dbTable.columns[i] : i \in 1..Len(dbTable.columns) } :
                  c.name = columnName
  IN column.nullable

IsBareParameter(e) == e # Null /\ e.kind = "parameter"

\* the records C6 expects: one for each bare parameter of VALUES or SET
ExpectedRecords(tree) ==
  CASE tree.kind = "insert" /\ tree.values.kind = "exprValues" ->
         { [site |-> << t, i >>,
            record |-> [index |-> tree.values.valuesList[t][i].index - 1,
                        nullable |-> TargetNullable(tree.table, tree.columns[i])]] :
             << t, i >> \in
               { s \in (1..Len(tree.values.valuesList)) \X (1..Len(tree.columns)) :
                   /\ s[2] <= Len(tree.values.valuesList[s[1]])
                   /\ IsBareParameter(tree.values.valuesList[s[1]][s[2]]) } }
    [] tree.kind = "update" ->
         { [site |-> << 1, i >>,
            record |-> [index |-> tree.updates[i].value.index - 1,
                        nullable |-> TargetNullable(tree.table,
                                                    tree.updates[i].columnName)]] :
             i \in { j \in 1..Len(tree.updates) :
                       IsBareParameter(tree.updates[j].value) } }
    [] OTHER -> {}

PersonInsert ==
  Insert(s_person, <<>>, << s_name, s_age >>,
         ExprValues(<< << Parameter(1), Parameter(2) >> >>), <<>>)

\* C6: in INSERT ... VALUES and UPDATE ... SET every bare parameter $k yields a
\* record binding index k-1 to the nullability of its target column, and nothing
\* else yields a record (other expressions, DEFAULT VALUES); the person example
\* ends with params [non-nullable, nullable].
C6_RecordsForBareParameters ==
  /\ (paramNullability # Null /\ astNode.kind \in { "insert", "update" })
       => LET list == paramNullability.list
              expected == ExpectedRecords(astNode)
          IN /\ Len(list) = Cardinality(expected)
             /\ \A e \in expected : \E r \in 1..Len(list) : list[r] = e.record
             /\ \A r \in 1..Len(list) : \E e \in expected : list[r] = e.record
  /\ (ParamPassDone /\ astNode = PersonInsert)
       => /\ ~stmt.params[1].nullable
          /\ stmt.params[2].nullable

C6_Witness ==
  /\ pc = "done"
  /\ failure = Null
  /\ astNode.kind = "insert"
  /\ astNode.values.kind = "exprValues"
  /\ Len(astNode.values.valuesList[1]) = 2
  /\ astNode.values.valuesList[1][1] = Parameter(2)
  /\ astNode.values.valuesList[1][2] = BinaryOp(Parameter(1), "+", Constant("1"))
  /\ paramNullability.list = << [index |-> 1, nullable |-> FALSE] >>

\* the permutations of 1..n
RecordOrders(n) ==
  { f \in [1..n -> 1..n] : \A i, j \in 1..n : f[i] = f[j] => i = j }

\* C7: a parameter with one or more records is nullable if and only if one of its
\* records is nullable, and the params do not depend on the order of the records.
C7_NullableIffAnyRecord ==
  (pc = "inferRowCount" /\ paramNullability # Null)
    => LET list == paramNullability.list
           before == [stmt EXCEPT !.params = statement.params]
       IN /\ \A k \in 1..Len(stmt.params) :
               HasRecord(k)
                 => (stmt.params[k].nullable
                       <=> \E r \in 1..Len(list) :
                             list[r].index = k - 1 /\ list[r].nullable)
          /\ \A f \in RecordOrders(Len(list)) :
               applyParamNullability(before, [i \in 1..Len(list) |-> list[f[i]]])
                 = Right(stmt)

C7_Witness ==
  /\ pc = "inferRowCount"
  /\ paramNullability # Null
  /\ \E r, q \in 1..Len(paramNullability.list) :
       /\ r < q
       /\ paramNullability.list[r].index = 0
       /\ paramNullability.list[q].index = 0
       /\ paramNullability.list[r].nullable
       /\ ~paramNullability.list[q].nullable
  /\ stmt.params[1].nullable

----------------------------------------------------------------------------
(* Properties of the row count pass *)

RowCountPassDone == pc = "done" /\ failure = Null

\* C8: a SELECT gets zeroOrOne exactly when it has a LIMIT whose count is the
\* constant 1, and many otherwise, whatever its WHERE and OFFSET are.
C8_SelectRowCount ==
  (RowCountPassDone /\ astNode.kind = "select")
    => /\ result.right.rowCount \in { "zeroOrOne", "many" }
       /\ result.right.rowCount = "zeroOrOne"
            <=> (astNode.limit # Null /\ astNode.limit.count = Constant("1"))

C8_Witness ==
  /\ RowCountPassDone
  /\ astNode.kind = "select"
  /\ astNode.body.where # Null
  /\ astNode.limit = Limit(Constant("1"), Constant("1"))
  /\ result.right.rowCount = "zeroOrOne"

\* C9: INSERT gets one for DEFAULT VALUES, one for a single tuple with RETURNING,
\* many for several tuples with RETURNING and zero for VALUES without RETURNING;
\* UPDATE and DELETE get many with RETURNING and zero without.
C9_DmlRowCount ==
  (RowCountPassDone /\ astNode.kind \in { "insert", "update", "delete" })
    => result.right.rowCount =
         IF astNode.kind = "insert"
         THEN IF astNode.values.kind = "defaultValues" THEN "one"
              ELSE IF astNode.returning = <<>> THEN "zero"
                   ELSE IF Len(astNode.values.valuesList) = 1 THEN "one"
                        ELSE "many"
         ELSE IF astNode.returning = <<>> THEN "zero" ELSE "many"

C9_Witness ==
  /\ RowCountPassDone
  /\ astNode.kind = "insert"
  /\ astNode.values.kind = "exprValues"
  /\ Len(astNode.values.valuesList) > 1
  /\ astNode.returning # <<>>
  /\ result.right.rowCount = "many"

----------------------------------------------------------------------------
(* Properties of FROM resolution *)

IsJoin(tableExpr) ==
  tableExpr # Null /\ tableExpr.kind \in { "qualifiedJoin", "crossJoin" }

\* a FROM clause and the operands of its top join that are joins themselves
JoinsOf(from) ==
  IF IsJoin(from)
  THEN { from } \cup { e \in { from.left, from.right } : IsJoin(e) }
  ELSE {}

\* after is before with nullable forced to true when forced, and as it was
\* otherwise; names, hidden, the kind and elemNullable are those of before
ForcedAs(before, after, forced) ==
  /\ Len(after) = Len(before)
  /\ \A i \in 1..Len(before) :
       /\ after[i].tableAlias = before[i].tableAlias
       /\ after[i].columnName = before[i].columnName
       /\ after[i].hidden = before[i].hidden
       /\ after[i].nullability.kind = before[i].nullability.kind
       /\ before[i].nullability.kind = "Array"
            => after[i].nullability.elemNullable = before[i].nullability.elemNullable
       /\ after[i].nullability.nullable = (forced \/ before[i].nullability.nullable)

\* C10: the source columns of the left operand of a qualified join are forced
\* nullable exactly for RIGHT and FULL, those of the right operand exactly for
\* LEFT and FULL, INNER and CROSS force nothing; every column of a nested join on
\* a forced side is forced, and elemNullable of an Array column never changes.
C10_JoinForcing ==
  (pc = "applyColumnNullability" /\ astNode.kind = "select")
    => \A joinExpr \in JoinsOf(astNode.body.from) :
         LET left == getSourceColumnsForTableExpr(<<>>, joinExpr.left, FALSE).right
             right == getSourceColumnsForTableExpr(<<>>, joinExpr.right, FALSE).right
             all == getSourceColumnsForTableExpr(<<>>, joinExpr, FALSE).right
         IN /\ Len(all) = Len(left) + Len(right)
            /\ ForcedAs(left, SubSeq(all, 1, Len(left)),
                        joinExpr.kind = "qualifiedJoin"
                          /\ joinExpr.joinType \in { "RIGHT", "FULL" })
            /\ ForcedAs(right, SubSeq(all, Len(left) + 1, Len(all)),
                        joinExpr.kind = "qualifiedJoin"
                          /\ joinExpr.joinType \in { "LEFT", "FULL" })

C10_Witness ==
  /\ pc = "applyColumnNullability"
  /\ astNode.kind = "select"
  /\ astNode.body.from = JoinOf(LeafP, "LEFT", JoinOf(LeafT, "INNER", LeafS))
  /\ outputColumns[1].nullability = any(FALSE)
  /\ outputColumns[4].nullability = any(TRUE)
  /\ outputColumns[5].nullability = array(TRUE, FALSE)


----------------------------------------------------------------------------
(* Properties of column inference *)

\* the column pass has inferred the output columns of a SELECT without WITH
SelectInferred ==
  pc = "applyColumnNullability" /\ astNode.kind = "select" /\ astNode.ctes = <<>>

\* the source columns of the FROM clause of the statement
SourceColumnsOfFrom == getSourceColumnsForTableExpr(<<>>, astNode.body.from, FALSE).right

\* the non-null expressions of the WHERE clause of the statement
NonNullOfWhere == getNonNullExpressionsFromWhere(astNode.body.where)

\* the reference names the column: an unqualified one by its name, a qualified one
\* by its table alias and its name
RefNames(ref, column) ==
  \/ ref.kind = "columnRef" /\ ref.column = column.columnName
  \/ /\ ref.kind = "tableColumnRef"
     /\ ref.table = column.tableAlias
     /\ ref.column = column.columnName

\* a reference of the non-null list names the column
Covered(column, nonNull) ==
  \E i \in 1..Len(nonNull) : RefNames(nonNull[i], column)

IsStar(selectList) ==
  Len(selectList) = 1 /\ selectList[1].kind \in { "allFields", "allTableFields" }

AllExpressions(selectList) ==
  \A i \in 1..Len(selectList) : selectList[i].kind = "selectListExpression"

\* the source columns * or t.* stands for
StarColumns(item, sourceColumns) ==
  SelectSeq(sourceColumns,
            LAMBDA column :
              /\ ~column.hidden
              /\ item.kind = "allTableFields" => column.tableAlias = item.tableName)

\* the source column a column reference resolves to
Resolved(ref, sourceColumns) ==
  IF ref.kind = "columnRef"
  THEN findSourceColumn(ref.column, sourceColumns).right
  ELSE findSourceTableColumn(ref.table, ref.column, sourceColumns).right

IsColumnReference(e) == e.kind \in { "columnRef", "tableColumnRef" }

RECURSIVE PropagatingRefs(_, _)
\* the column references of an expression whose NULL makes the expression NULL:
\* those under NULL-safe operators and functions only, outside the sub-expressions
\* that WHERE guarantees non-null
PropagatingRefs(e, nonNull) ==
  IF \E i \in 1..Len(nonNull) : nonNull[i] = e THEN {}
  ELSE CASE IsColumnReference(e) -> { e }
         [] e.kind = "unaryOp" /\ operatorNullSafety(e.op) = "safe" ->
              PropagatingRefs(e.operand, nonNull)
         [] e.kind = "binaryOp" /\ operatorNullSafety(e.op) = "safe" ->
              PropagatingRefs(e.lhs, nonNull) \cup PropagatingRefs(e.rhs, nonNull)
         [] e.kind = "functionCall" /\ functionNullSafety(e.funcName) = "safe" ->
              UNION { PropagatingRefs(e.argList[i], nonNull) :
                        i \in 1..Len(e.argList) }
         [] OTHER -> {}

\* C11: conservative soundness. An output column is inferred nullable when the
\* column * or t.* emits for it, or a column reference its expression propagates
\* NULL from, resolves to a nullable source column that no IS NOT NULL and no
\* NULL-safe operator or function of WHERE covers.
C11_ConservativeSoundness ==
  SelectInferred
    => /\ IsStar(astNode.body.selectList)
            => LET emitted == StarColumns(astNode.body.selectList[1],
                                          SourceColumnsOfFrom)
               IN \A i \in 1..Len(emitted) :
                    (emitted[i].nullability.nullable
                       /\ ~Covered(emitted[i], NonNullOfWhere))
                      => outputColumns[i].nullability.nullable
       /\ AllExpressions(astNode.body.selectList)
            => \A i \in 1..Len(astNode.body.selectList) :
                 \A ref \in PropagatingRefs(astNode.body.selectList[i].expression,
                                            NonNullOfWhere) :
                   LET column == Resolved(ref, SourceColumnsOfFrom)
                   IN (column.nullability.nullable
                         /\ ~Covered(column, NonNullOfWhere))
                        => outputColumns[i].nullability.nullable

\* the SELECT with its FROM clause F replaced by F LEFT JOIN extra ON true
WithLeftJoin(tree, extra) ==
  [tree EXCEPT !.body.from = QualifiedJoin(@, "LEFT", extra, Constant("true"))]

\* the table expressions joined to the FROM clause
JoinedExtras == { LeafT, LeafS, Table(s_person, s_q), Table(s_u, <<>>) }

\* C12: join monotonicity. With the FROM clause F of a SELECT replaced by
\* F LEFT JOIN t, the select list and WHERE kept, every output column there was is
\* still there under its name, and none that was nullable is non-nullable.
C12_JoinMonotonicity ==
  (pc = "applyColumnNullability" /\ astNode.kind = "select"
     /\ astNode.body.from # Null)
    => \A extra \in JoinedExtras :
         LET joined == getOutputColumns(<<>>, WithLeftJoin(astNode, extra))
         IN /\ isRight(joined)
            /\ Len(joined.right) >= Len(outputColumns)
            /\ \A i \in 1..Len(outputColumns) :
                 /\ joined.right[i].name = outputColumns[i].name
                 /\ outputColumns[i].nullability.nullable
                      => joined.right[i].nullability.nullable

C12_Witness ==
  /\ pc = "applyColumnNullability"
  /\ astNode = Select(<<>>, << AllFields >>, LeafP, AgeIsNotNull, Null)
  /\ outputColumns[2].nullability = any(FALSE)
  /\ outputColumns[3].nullability = any(FALSE)
  /\ LET joined == getOutputColumns(<<>>, WithLeftJoin(astNode, LeafT)).right
     IN /\ Len(joined) = 4
        /\ joined[3] = virtualField(s_age, any(FALSE))
        /\ joined[4] = virtualField(s_a, any(TRUE))

\* C13: applied to the columns of * and t.*, the non-null list of WHERE forces a
\* column that an unqualified reference names by its column name, forces no column
\* that no reference names (a qualified one naming by alias and column name), and
\* leaves the nullability of every column it does not force.
C13_RefinementMatchesByAliasAndName ==
  (SelectInferred /\ IsStar(astNode.body.selectList))
    => LET emitted == StarColumns(astNode.body.selectList[1], SourceColumnsOfFrom)
       IN /\ Len(outputColumns) = Len(emitted)
          /\ \A i \in 1..Len(emitted) :
               /\ (\E k \in 1..Len(NonNullOfWhere) :
                     /\ NonNullOfWhere[k].kind = "columnRef"
                     /\ NonNullOfWhere[k].column = emitted[i].columnName)
                    => outputColumns[i].nullability = any(FALSE)
               /\ ~Covered(emitted[i], NonNullOfWhere)
                    => outputColumns[i].nullability = emitted[i].nullability

\* C14: a select-list expression that is a column reference gets the nullability
\* that * emits for the source column it resolves to under the same WHERE; with
\* WHERE age IS NOT NULL both age and p.age are non-nullable.
C14_ColumnRefGetsRefinedNullability ==
  (SelectInferred /\ AllExpressions(astNode.body.selectList))
    => /\ \A i \in 1..Len(astNode.body.selectList) :
            IsColumnReference(astNode.body.selectList[i].expression)
              => outputColumns[i].nullability =
                   applyExpressionNonNullability(
                     NonNullOfWhere,
                     << Resolved(astNode.body.selectList[i].expression,
                                 SourceColumnsOfFrom) >>)[1].nullability
       /\ (astNode.body.where = AgeIsNotNull
             /\ astNode.body.selectList
                  = << Item(ColumnRef(s_age)), Item(AgeOf(s_p)) >>)
            => /\ outputColumns[1].nullability = any(FALSE)
               /\ outputColumns[2].nullability = any(FALSE)

\* C15: a table reference inside a CTE to an earlier CTE of the same WITH clause or
\* to a CTE of an enclosing statement resolves to that CTE. In every statement of
\* CteTrees the table references lead to the CTE `SELECT id FROM person`, so the
\* column pass infers the one non-nullable column id.
C15_CteSeesEarlierAndOuterCtes ==
  (astNode \in CteTrees /\ passes # <<>>)
    => /\ failure # Null => failure.left \in MismatchErrors
       /\ outputColumns = << virtualField(s_id, any(FALSE)) >>


\* the WHERE clause of the statement
WhereOf(tree) ==
  CASE tree.kind = "select" -> tree.body.where
    [] tree.kind \in { "update", "delete" } -> tree.where
    [] OTHER -> Null

RECURSIVE Conjuncts(_)
\* a WHERE expression and, through AND only, the expressions it is made of
Conjuncts(where) ==
  IF where # Null /\ where.kind = "binaryOp" /\ where.op = "AND"
  THEN { where } \cup Conjuncts(where.lhs) \cup Conjuncts(where.rhs)
  ELSE { where }

\* C16: getNonNullExpressionsFromWhere gives, for A AND B, the results for A and B
\* concatenated; for IS NOT NULL / NOTNULL of E, [E]; for a NULL-safe binary
\* operator, [L, R]; for a NULL-safe function call, its arguments; and [] for any
\* other expression, OR and NOT among them, and for a missing WHERE.
C16_NonNullExpressionsFromWhere ==
  (astNode # Null /\ passes # <<>>)
    => \A w \in Conjuncts(WhereOf(astNode)) :
         getNonNullExpressionsFromWhere(w) =
           IF w = Null THEN <<>>
           ELSE CASE w.kind = "binaryOp" /\ w.op = "AND" ->
                       getNonNullExpressionsFromWhere(w.lhs)
                         \o getNonNullExpressionsFromWhere(w.rhs)
                  [] w.kind = "binaryOp" /\ w.op \in { "OR" } -> <<>>
                  [] w.kind = "binaryOp" /\ w.op \notin { "AND", "OR" }
                       /\ operatorNullSafety(w.op) = "safe" -> << w.lhs, w.rhs >>
                  [] w.kind = "unaryOp" /\ w.op \in { "IS NOT NULL", "NOTNULL" } ->
                       << w.operand >>
                  [] w.kind = "functionCall"
                       /\ functionNullSafety(w.funcName) = "safe" -> w.argList
                  [] OTHER -> <<>>

C16_Witness ==
  /\ pc = "applyColumnNullability"
  /\ astNode.kind = "select"
  /\ astNode.body.selectList = << AllFields >>
  /\ astNode.body.where =
       BinaryOp(BinaryOp(AgeIsNotNull, "OR", IdEquals(1)), "AND",
                UnaryOp("NOTNULL", AgeOf(s_q)))
  /\ getNonNullExpressionsFromWhere(astNode.body.where) = << AgeOf(s_q) >>
  /\ outputColumns[3] = virtualField(s_age, any(TRUE))
  /\ outputColumns[6] = virtualField(s_age, any(FALSE))

IsOperatorOrCall(e) == e.kind \in { "unaryOp", "binaryOp", "functionCall" }

NullSafetyOf(e) ==
  IF e.kind = "functionCall" THEN functionNullSafety(e.funcName)
  ELSE operatorNullSafety(e.op)

OperandsOf(e) ==
  CASE e.kind = "unaryOp" -> << e.operand >>
    [] e.kind = "binaryOp" -> << e.lhs, e.rhs >>
    [] e.kind = "functionCall" -> e.argList

IsArrayItem(selectList) ==
  /\ Len(selectList) = 1
  /\ selectList[1].kind = "selectListExpression"
  /\ selectList[1].expression.kind = "arraySubQuery"

\* C18: ARRAY(subquery) over a subquery with one output column is
\* Array{nullable: false, elemNullable: that column's nullable}; over a subquery
\* with no or several output columns its inference fails.
C18_ArraySubQuery ==
  (astNode # Null /\ astNode.kind = "select" /\ passes # <<>>
     /\ IsArrayItem(astNode.body.selectList)
     /\ isRight(getSourceColumnsForTableExpr(<<>>, astNode.body.from, FALSE)))
    => LET item == astNode.body.selectList[1]
           columns == getOutputColumns(<<>>, item.expression.subquery).right
       IN IF Len(columns) = 1
          THEN /\ failure # Null => failure.left \in MismatchErrors
               /\ outputColumns =
                    << virtualField(item.as,
                                    array(FALSE, columns[1].nullability.nullable)) >>
          ELSE /\ failure = Left("subquery must return only one column")
               /\ outputColumns = <<>>

C18_Witness ==
  /\ pc = "getParamNullability"
  /\ astNode.kind = "select"
  /\ astNode.body.selectList = << ArrayOf(<< Item(ColumnRef(s_age)) >>) >>
  /\ outputColumns = << virtualField(s_arr, array(FALSE, TRUE)) >>
  /\ stmt.columns[1].type.kind = "Array"
  /\ stmt.columns[1].type.elemNullable
  /\ ~stmt.columns[1].nullable

C20_ZeroIffNoReturning ==
  (RowCountPassDone /\ astNode.kind \in { "insert", "update", "delete" })
    => /\ result.right.rowCount = "zero" <=> astNode.returning = <<>>
       /\ astNode.returning = <<>> <=> result.right.columns = <<>>

----------------------------------------------------------------------------
(* Properties of the CTE scope *)

\* C21: in an UPDATE with a WITH clause the RETURNING list is inferred in the
\* scope that resolved FROM and the target table, the outer CTEs plus the
\* statement's own, so what the column pass returns is the RETURNING list inferred
\* with the statement's CTEs visible.
C21_ReturningSeesOwnCtes ==
  (astNode \in UpdateCteTrees /\ passes # <<>>)
    => LET combinedCTEs ==
             combineVirtualTables(
               <<>>, getVirtualTablesForWithQueries(astNode.ctes)).right
           sourceColumns ==
             combineSourceColumns(
               << getSourceColumnsForTableExpr(combinedCTEs, astNode.from, FALSE),
                  getSourceColumnsForTable(combinedCTEs, astNode.table,
                                           astNode.as) >>).right
           expected ==
             inferSelectListOutput(combinedCTEs, sourceColumns, astNode.where,
                                   astNode.returning)
       IN /\ isRight(expected)
          /\ outputColumns = expected.right
          /\ failure # Null => failure.left \in MismatchErrors

\* C22: a table reference inside a nested WITH statement to a name that both the
\* nested WITH and an enclosing WITH define resolves to the nested, innermost CTE.
C22_InnermostCteWins ==
  \A shape \in ShadowShapes, inner \in InnerQueries :
    (astNode = Shadow(shape, s_c, inner) /\ passes # <<>>)
      => /\ outputColumns = getOutputColumns(<<>>, inner).right
         /\ failure # Null => failure.left \in MismatchErrors

----------------------------------------------------------------------------
(* Watch mode: watchDirectories, handleWatchEvents and the event handler *)

MaxEvents == 3

\* the directories on the command line and the SQL files that change in them
DirPaths == << "sql", "lib" >>

SqlFileNames == { "a.sql", "b.sql" }

\* the files, by directory, that watch() reports events for
WatchedFiles == { << "sql", "a.sql" >>, << "sql", "b.sql" >>, << "lib", "a.sql" >> }

\* path.basename(getOutputPath(filePath)): the extension becomes .ts
getOutputPath(filePath) == IF filePath = "a.sql" THEN "a.ts" ELSE "b.ts"

\* the TsModule processSQLFile makes of a file: every field comes from the path
TsModule(sqlFileName) ==
  [sqlFileName |-> sqlFileName, tsFileName |-> getOutputPath(sqlFileName)]

TsModuleDir(dirPath, modules) == [dirPath |-> dirPath, modules |-> modules]

WatchEvent(type, dirPath, fileName) ==
  [type |-> type, dirPath |-> dirPath, fileName |-> fileName]

\* Array.prototype.findIndex, counting from 1: 0 stands for its -1
findIndex(pred(_), as) ==
  LET hits == { i \in 1..Len(as) : pred(as[i]) }
  IN IF hits = {} THEN 0 ELSE First(hits)

\* fp-ts Array.modifyAt: none when the index is out of bounds
modifyAt(i, f(_), as) ==
  IF i < 1 \/ i > Len(as) THEN none ELSE some([as EXCEPT ![i] = f(as[i])])

\* fp-ts Option.getOrElse
getOrElse(option, onNone) == IF option = none THEN onNone ELSE option[1]

\* Option.fromNullable of an index is always a some, -1 included; modifyAt then
\* refuses the index that is out of bounds
modifyWhere(pred(_), replacer(_), where) ==
  LET index == some(findIndex(pred, where))
  IN modifyAt(index[1], LAMBDA found : replacer(where[index[1]]), where)

\* replaceOrAddTsModule that appends without looking for an existing entry
replaceOrAddTsModuleAlwaysAdds(tsModule, tsModules) == Append(tsModules, tsModule)

replaceOrAddTsModule(tsModule, tsModules) ==
  getOrElse(modifyWhere(LAMBDA mod : mod.sqlFileName = tsModule.sqlFileName,
                        LAMBDA found : tsModule,
                        tsModules),
            Append(tsModules, tsModule))

removeTsModule(sqlFileName, tsModules) ==
  SelectSeq(tsModules, LAMBDA mod : mod.sqlFileName # sqlFileName)

\* maybeWriteIndexModule sorts a copy for index.ts and resolves to its argument
maybeWriteIndexModule(tsModules) == tsModules

\* the handler makeWatchEventHandler returns, when it resolves; tsModuleOption is
\* what processSQLFile resolved to
eventHandler(tsModules, type, dirPath, sqlFileName, tsModuleOption) ==
  maybeWriteIndexModule(
    IF type = "update"
    THEN IF tsModuleOption = none THEN tsModules
         ELSE replaceOrAddTsModule(tsModuleOption[1], tsModules)
    ELSE removeTsModule(sqlFileName, tsModules))

\* moduleDirs.find(dir => dir.dirPath === dirPath), the found directory in a list
findModuleDir(dirs, dirPath) ==
  LET index == findIndex(LAMBDA dir : dir.dirPath = dirPath, dirs)
  IN IF index = 0 THEN <<>> ELSE << dirs[index] >>

\* handleWatchEvents from the head of its loop to its next await or its return
handleWatchEvents(dirs, events) ==
  IF Len(events) > 0 /\ findModuleDir(dirs, Head(events).dirPath) # <<>>
  THEN [awaits |-> TRUE, moduleDirs |-> dirs, event |-> Head(events),
        events |-> Tail(events)]
  ELSE [awaits |-> FALSE, moduleDirs |-> dirs, event |-> Null,
        events |-> IF Len(events) > 0 THEN Tail(events) ELSE events]

\* handleWatchEvents after the awaited handler resolved with newModules
afterEventHandler(drain, newModules) ==
  getOrElse(modifyWhere(LAMBDA moduleDir : moduleDir.dirPath = drain.event.dirPath,
                        LAMBDA moduleDir : TsModuleDir(moduleDir.dirPath, newModules),
                        drain.moduleDirs),
            drain.moduleDirs)

\* a sequence without its i-th element
RemoveAt(seq, i) == SubSeq(seq, 1, i - 1) \o SubSeq(seq, i + 1, Len(seq))

\* the module lists processDirectories can return for a directory
ModuleLists ==
  { <<>> } \cup { << TsModule(f) >> : f \in SqlFileNames }
  \cup UNION { { << TsModule(f), TsModule(g) >> : g \in SqlFileNames \ { f } } :
                f \in SqlFileNames }

\* no inferStatementNullability call is in progress
InferIdle ==
  /\ statement = Description(Unparsed, <<>>, <<>>)
  /\ pc = "watch"
  /\ astNode = Null
  /\ outputColumns = <<>>
  /\ paramNullability = Null
  /\ stmt = statement
  /\ failure = Null
  /\ result = Null
  /\ warned = FALSE
  /\ passes = <<>>

\* watchDirectories up to its watch() calls
WatchInit ==
  /\ InferIdle
  /\ moduleDirs \in { << TsModuleDir(DirPaths[1], first),
                           TsModuleDir(DirPaths[2], second) >> :
                        first \in ModuleLists,
                        second \in { <<>>, << TsModule("a.sql") >> } }
  /\ eventBuffer = <<>>
  /\ handlingEvents = FALSE
  /\ drains = <<>>
  /\ arrived = 0
  /\ handled = Null

\* the watch callback that starts a drain whether or not one is running
WatchCallbackAlwaysDrains(type, dirPath, fileName) ==
  /\ arrived < MaxEvents
  /\ arrived' = arrived + 1
  /\ LET run == handleWatchEvents(
                  moduleDirs, Append(eventBuffer, WatchEvent(type, dirPath, fileName)))
     IN /\ eventBuffer' = run.events
        /\ IF run.awaits
           THEN /\ handlingEvents' = TRUE
                /\ drains' = Append(drains, [moduleDirs |-> run.moduleDirs,
                                             event |-> run.event])
                /\ UNCHANGED moduleDirs
           ELSE /\ handlingEvents' = FALSE
                /\ moduleDirs' = run.moduleDirs
                /\ UNCHANGED drains
  /\ UNCHANGED << handled, inferVars >>

\* the callback given to watch(): push the event and, unless a drain is running,
\* run handleWatchEvents up to its first await
WatchCallback(type, dirPath, fileName) ==
  /\ arrived < MaxEvents
  /\ arrived' = arrived + 1
  /\ LET pushed == Append(eventBuffer, WatchEvent(type, dirPath, fileName))
     IN IF ~handlingEvents
        THEN LET run == handleWatchEvents(moduleDirs, pushed)
             IN /\ eventBuffer' = run.events
                /\ IF run.awaits
                   THEN /\ handlingEvents' = TRUE
                        /\ drains' = Append(drains, [moduleDirs |-> run.moduleDirs,
                                                     event |-> run.event])
                        /\ UNCHANGED moduleDirs
                   ELSE /\ handlingEvents' = FALSE
                        /\ moduleDirs' = run.moduleDirs
                        /\ UNCHANGED drains
        ELSE /\ eventBuffer' = pushed
             /\ UNCHANGED << moduleDirs, handlingEvents, drains >>
  /\ UNCHANGED << handled, inferVars >>

\* the awaited event handler of drain i resolves: the loop takes the next event,
\* or returns, and then the callback stores the list and clears handlingEvents
HandlerResolves(i, tsModuleOption) ==
  /\ i \in 1..Len(drains)
  /\ LET drain == drains[i]
         event == drain.event
         moduleDir == findModuleDir(drain.moduleDirs, event.dirPath)[1]
         newModules == eventHandler(moduleDir.modules, event.type, event.dirPath,
                                    event.fileName, tsModuleOption)
         run == handleWatchEvents(afterEventHandler(drain, newModules), eventBuffer)
     IN /\ tsModuleOption \in
             IF event.type = "update" THEN { none, some(TsModule(event.fileName)) }
             ELSE { none }
        /\ eventBuffer' = run.events
        /\ IF run.awaits
           THEN /\ drains' = [drains EXCEPT ![i] = [moduleDirs |-> run.moduleDirs,
                                                    event |-> run.event]]
                /\ UNCHANGED << moduleDirs, handlingEvents >>
           ELSE /\ drains' = RemoveAt(drains, i)
                /\ moduleDirs' = run.moduleDirs
                /\ handlingEvents' = FALSE
        /\ handled' = [event |-> event,
                       result |-> IF event.type = "remove" THEN "removed"
                                  ELSE IF tsModuleOption = none THEN "failed"
                                       ELSE "updated"]
  /\ UNCHANGED << arrived, inferVars >>

\* the awaited event handler of drain i rejects (readFile, writeFile): the
\* rejection leaves handleWatchEvents and the callback at their awaits
HandlerRejects(i) ==
  /\ i \in 1..Len(drains)
  /\ drains' = RemoveAt(drains, i)
  /\ handled' = [event |-> drains[i].event, result |-> "rejected"]
  /\ UNCHANGED << moduleDirs, eventBuffer, handlingEvents, arrived, inferVars >>

WatchNext ==
  \/ \E type \in { "update", "remove" }, file \in WatchedFiles :
       WatchCallback(type, file[1], file[2])
  \/ \E i \in 1..Len(drains), tsModuleOption \in { none } \cup { some(TsModule(f)) : f \in SqlFileNames } :
       HandlerResolves(i, tsModuleOption)
  \/ \E i \in 1..Len(drains) : HandlerRejects(i)

WatchSpec == WatchInit /\ [][WatchNext]_vars

\* an awaited handler settles, one way or the other
HandlerSettles ==
  \E i \in 1..Len(drains) :
    \/ \E tsModuleOption \in { none } \cup { some(TsModule(f)) : f \in SqlFileNames } :
         HandlerResolves(i, tsModuleOption)
    \/ HandlerRejects(i)

WatchLive == WatchSpec /\ WF_vars(HandlerSettles)

----------------------------------------------------------------------------
(* Properties of watch mode *)

\* the lists of module directories in use: the one watchDirectories holds and
\* the one each running handleWatchEvents works on
ListsInUse == { moduleDirs } \cup { drains[i].moduleDirs : i \in 1..Len(drains) }

\* C23: at most one handleWatchEvents drain is active at any time, and a watch
\* callback that fires while handlingEvents is set only appends its event to the
\* buffer: it starts no drain and leaves moduleDirs alone.
C23_AtMostOneDrain ==
  /\ [](Len(drains) <= 1 /\ (drains # <<>> => handlingEvents))
  /\ [][(handlingEvents /\ arrived' # arrived)
          => /\ Len(eventBuffer') = Len(eventBuffer) + 1
             /\ SubSeq(eventBuffer', 1, Len(eventBuffer)) = eventBuffer
             /\ drains' = drains
             /\ moduleDirs' = moduleDirs
             /\ handlingEvents']_vars

C23_Witness ==
  /\ Len(drains) = 1
  /\ handlingEvents
  /\ Len(eventBuffer) = 2
  /\ arrived = 3

\* C24: after a drain ends, by its handlers succeeding or by one of them
\* rejecting, handlingEvents is false again, and every event in the buffer is
\* eventually taken out of it without a further watch event.
C24_EveryEventIsHandled ==
  /\ [](drains = <<>> => ~handlingEvents)
  /\ (eventBuffer # <<>>) ~> (eventBuffer = <<>>)

\* the sqlFileNames of a module list are distinct
DistinctNames(modules) ==
  \A i, j \in 1..Len(modules) :
    modules[i].sqlFileName = modules[j].sqlFileName => i = j

\* the modules of directory dirPath in a list of module directories
ModulesOf(dirs, dirPath) == findModuleDir(dirs, dirPath)[1].modules

\* C25: every module list holds at most one module per sqlFileName, and handling
\* an event changes only the list of the event's directory: a successful update
\* replaces the entry of that name where it is or appends one, a failed update
\* changes nothing, a remove takes out the entry of that name and nothing else.
C25_OneModulePerFile ==
  /\ [](\A dirs \in ListsInUse :
          /\ Len(dirs) = Len(DirPaths)
          /\ \A k \in 1..Len(dirs) :
               dirs[k].dirPath = DirPaths[k] /\ DistinctNames(dirs[k].modules))
  /\ [][(handled' # Null /\ handled'.result # "rejected" /\ drains # <<>>
           /\ arrived' = arrived)
          => LET event == handled'.event
                 before == drains[1].moduleDirs
                 after == IF drains' = <<>> THEN moduleDirs'
                          ELSE drains'[1].moduleDirs
                 old == ModulesOf(before, event.dirPath)
                 new == ModulesOf(after, event.dirPath)
                 at == { k \in 1..Len(old) : old[k].sqlFileName = event.fileName }
             IN /\ \A k \in 1..Len(before) :
                     before[k].dirPath # event.dirPath => after[k] = before[k]
                /\ handled'.result = "updated"
                     => IF at = {}
                        THEN new = Append(old, TsModule(event.fileName))
                        ELSE /\ Len(new) = Len(old)
                             /\ \A k \in 1..Len(old) :
                                  new[k] = IF k \in at THEN TsModule(event.fileName)
                                           ELSE old[k]
                /\ handled'.result = "failed" => new = old
                /\ handled'.result = "removed"
                     => /\ \A k \in 1..Len(new) : new[k].sqlFileName # event.fileName
                        /\ new = SelectSeq(old, LAMBDA mod :
                                                  mod.sqlFileName # event.fileName)]_vars

C25_Witness ==
  /\ handled # Null
  /\ handled.result = "updated"
  /\ handled.event = WatchEvent("update", "sql", "b.sql")
  /\ arrived = 3
  /\ ~handlingEvents
  /\ moduleDirs = << TsModuleDir("sql", << TsModule("a.sql"), TsModule("b.sql") >>),
                     TsModuleDir("lib", <<>>) >>

====
